---- MODULE Spec2Model ----
(***************************************************************************)
(* Model of src/render/scene.cpp (mitsuba3): the Scene constructor, the    *)
(* discrete emitter sampling routines and the parameter-change handler.    *)
(***************************************************************************)
EXTENDS Integers, Sequences, FiniteSets

(***************************************************************************)
(* Bounds of the model.                                                    *)
(***************************************************************************)
\* Significand width of the modelled binary floating-point format (24 in
\* single precision).
Prec == 4

\* The finest spacing of the format is 2^-FracBits (gradual underflow below
\* 2^(Prec-FracBits)); every value is an integer count of that spacing.
FracBits == 5

\* Width of the unsigned index type (32 in the code); scaled so that 2^w
\* fits the checker's integers.
IndexBits == 8

\* Number of lanes of a batched query.
NumLanes == 2

(***************************************************************************)
(* Floating-point arithmetic: round-to-nearest, ties-to-even.              *)
(***************************************************************************)
RECURSIVE Pow2(_)
Pow2(n) == IF n = 0 THEN 1 ELSE 2 * Pow2(n - 1)

\* 1.0f, in units of the finest spacing.
Unit == Pow2(FracBits)

RECURSIVE BitLen(_)
BitLen(n) == IF n = 0 THEN 0 ELSE 1 + BitLen(n \div 2)

\* Below 2^Prec spacings every multiple of the finest spacing is a value.
FullPrec == Pow2(Prec)

\* Spacing of the representable values in the binade of magnitude f.
Ulp(f) == IF f < FullPrec THEN 1 ELSE Pow2(BitLen(f) - Prec)

\* num/d rounded to an integer, ties to even, times step.
RoundTo(num, d, step) ==
    LET k == num \div d
        r == num % d
    IN  IF 2 * r > d \/ (2 * r = d /\ k % 2 = 1)
        THEN (k + 1) * step ELSE k * step

\* The representable value nearest to the rational num/den (den > 0,
\* num >= 0), ties to even.
RoundRat(num, den) ==
    LET step == Ulp(num \div den)
    IN  RoundTo(num, den * step, step)

IsFloat(m) == RoundRat(m, 1) = m

FMul(a, b) == RoundRat(a * b, Unit)

FDiv(a, b) == RoundRat(a * Unit, b)

FSub(a, b) == RoundRat(a - b, 1)

\* (ScalarFloat) n and Float(index): unsigned integer to float.
FromUInt(n) == RoundRat(n * Unit, 1)

\* UInt32(x): float to unsigned integer, truncating.
UIntRange == Pow2(IndexBits)

ToUInt(x) == (x \div Unit) % UIntRange

\* UInt32(-1)
UIntMax == UIntRange - 1

Min(a, b) == IF a < b THEN a ELSE b

\* Uniform samples: every representable value of [0, 1).
Samples == {m \in 0..(Unit - 1) : IsFloat(m)}

(***************************************************************************)
(* The objects a Properties bag can hold.  A shape answers is_emitter(),   *)
(* is_sensor() and is_shapegroup() and has a bounding box (one axis is     *)
(* modelled, the axes are independent); a stand-alone emitter has the      *)
(* Surface flag or not and answers is_environment().  An instancing group  *)
(* (class ShapeGroup) is a container of geometry and carries no emitter or *)
(* sensor of its own.                                                      *)
(***************************************************************************)
NullPtr == "nullptr"

Obj(id, kind) ==
    [id |-> id, kind |-> kind, is_emitter |-> FALSE, is_sensor |-> FALSE,
     is_shapegroup |-> FALSE, surface_flag |-> FALSE, is_environment |-> FALSE,
     emitter |-> NullPtr, sensor |-> NullPtr, lo |-> 0, hi |-> 0]

ShapeObj(id, lo, hi) == [Obj(id, "shape") EXCEPT !.lo = lo, !.hi = hi]

\* props.objects(), in key order.
Catalog ==
    << ShapeObj("a_mesh", 1, 2),
       [ShapeObj("b_arealight", 3, 4) EXCEPT !.is_emitter = TRUE,
                                             !.emitter = "b_arealight.emitter"],
       [ShapeObj("c_probe", -1, 1) EXCEPT !.is_sensor = TRUE,
                                          !.sensor = "c_probe.sensor"],
       [ShapeObj("d_group", 5, 6) EXCEPT !.is_shapegroup = TRUE],
       Obj("e_point", "emitter"),
       Obj("f_spot", "emitter"),
       [Obj("g_envmap", "emitter") EXCEPT !.is_environment = TRUE],
       [Obj("h_constant", "emitter") EXCEPT !.is_environment = TRUE],
       [Obj("i_area", "emitter") EXCEPT !.surface_flag = TRUE],
       Obj("j_camera", "sensor"),
       Obj("k_path", "integrator"),
       Obj("l_direct", "integrator"),
       Obj("m_bsdf", "other"),
       Obj("n_sun", "emitter"),
       Obj("o_lamp", "emitter") >>

AllIdx == 1..Len(Catalog)

IdxOf(ids) == {i \in AllIdx : Catalog[i].id \in ids}

\* The bags each specification draws from: every kind of object; the
\* emitters; the shapes and one environment emitter.
RegistryIdx == 1..13

LightIdx == IdxOf({"b_arealight", "e_point", "f_spot", "g_envmap", "n_sun",
                   "o_lamp"})

FewLightIdx == IdxOf({"e_point", "f_spot", "n_sun"})

ShapeIdx == IdxOf({"a_mesh", "b_arealight", "c_probe", "d_group", "g_envmap"})

\* The sub-sequence of the catalog at the indices S, in key order.
RECURSIVE PropsFrom(_, _)
PropsFrom(S, i) ==
    IF i > Len(Catalog) THEN << >>
    ELSE (IF i \in S THEN << Catalog[i] >> ELSE << >>) \o PropsFrom(S, i + 1)

PropsOf(S) == PropsFrom(S, 1)

Range(seq) == {seq[i] : i \in 1..Len(seq)}

ShapeIds == {Catalog[i].id : i \in {j \in AllIdx : Catalog[j].kind = "shape"}}

(***************************************************************************)
(* BoundingBox: default-constructed invalid; expand() grows it to contain  *)
(* another box.                                                            *)
(***************************************************************************)
EmptyBBox == [valid |-> FALSE, lo |-> 0, hi |-> 0]

Expand(box, lo, hi) ==
    IF ~box.valid THEN [valid |-> TRUE, lo |-> lo, hi |-> hi]
    ELSE [valid |-> TRUE, lo |-> Min(box.lo, lo),
          hi |-> IF box.hi > hi THEN box.hi ELSE hi]

(***************************************************************************)
(* Scene::Scene(props)                                                     *)
(***************************************************************************)
\* The members of a Scene under construction; threw: an exception left the
\* constructor.
NewScene ==
    [threw |-> FALSE, m_children |-> << >>, m_shapes |-> << >>,
     m_shapegroups |-> << >>, m_emitters |-> << >>, m_sensors |-> << >>,
     m_environment |-> NullPtr, m_integrator |-> NullPtr, m_bbox |-> EmptyBBox,
     m_emitter_pmf |-> 0, m_shapes_grad_enabled |-> FALSE]

\* AddShape with the bounding box grown by instancing groups too.
AddShapeGroupInBBox(sc, o) ==
    LET s1 == IF o.is_emitter
              THEN [sc EXCEPT !.m_emitters = Append(@, o.emitter)] ELSE sc
        s2 == IF o.is_sensor
              THEN [s1 EXCEPT !.m_sensors = Append(@, o.sensor)] ELSE s1
        s3 == [s2 EXCEPT !.m_bbox = Expand(@, o.lo, o.hi)]
    IN  IF o.is_shapegroup
        THEN [s3 EXCEPT !.m_shapegroups = Append(@, o.id)]
        ELSE [s3 EXCEPT !.m_shapes = Append(@, o.id)]

AddShape(sc, o) ==
    LET s1 == IF o.is_emitter
              THEN [sc EXCEPT !.m_emitters = Append(@, o.emitter)] ELSE sc
        s2 == IF o.is_sensor
              THEN [s1 EXCEPT !.m_sensors = Append(@, o.sensor)] ELSE s1
    IN  IF o.is_shapegroup
        THEN [s2 EXCEPT !.m_shapegroups = Append(@, o.id)]
        ELSE [s2 EXCEPT !.m_bbox = Expand(@, o.lo, o.hi),
                        !.m_shapes = Append(@, o.id)]

AddEmitter(sc, o) ==
    LET s1 == IF ~o.surface_flag
              THEN [sc EXCEPT !.m_emitters = Append(@, o.id)] ELSE sc
    IN  IF o.is_environment
        THEN IF s1.m_environment # NullPtr
             THEN [s1 EXCEPT !.threw = TRUE]
             ELSE [s1 EXCEPT !.m_environment = o.id]
        ELSE s1

AddSensor(sc, o) == [sc EXCEPT !.m_sensors = Append(@, o.id)]

\* AddIntegrator without the check for an integrator already set.
AddIntegratorNoThrow(sc, o) == [sc EXCEPT !.m_integrator = o.id]

AddIntegrator(sc, o) ==
    IF sc.m_integrator # NullPtr
    THEN [sc EXCEPT !.threw = TRUE]
    ELSE [sc EXCEPT !.m_integrator = o.id]

\* One iteration of the loop over props.objects().
AddChild(sc, o) ==
    LET s0 == [sc EXCEPT !.m_children = Append(@, o.id)]
    IN  CASE o.kind = "shape"      -> AddShape(s0, o)
          [] o.kind = "emitter"    -> AddEmitter(s0, o)
          [] o.kind = "sensor"     -> AddSensor(s0, o)
          [] o.kind = "integrator" -> AddIntegrator(s0, o)
          [] OTHER                 -> s0

RECURSIVE AddChildren(_, _, _)
AddChildren(sc, props, i) ==
    IF i > Len(props) \/ sc.threw THEN sc
    ELSE AddChildren(AddChild(sc, props[i]), props, i + 1)

\* 1.f / m_emitters.size(), or 0 without emitters.
EmitterPmf(n) == IF n = 0 THEN 0 ELSE FDiv(Unit, FromUInt(n))

\* What follows the loop: the default sensor and integrator, the pmf, the
\* gradient flag.
Finish(sc) ==
    [sc EXCEPT
       !.m_sensors = IF @ = << >> THEN << "perspective" >> ELSE @,
       !.m_integrator = IF @ = NullPtr THEN "path" ELSE @,
       !.m_emitter_pmf = EmitterPmf(Len(sc.m_emitters)),
       !.m_shapes_grad_enabled = FALSE]

SceneCtor(props) ==
    LET sc == AddChildren(NewScene, props, 1)
    IN  IF sc.threw THEN sc ELSE Finish(sc)

(***************************************************************************)
(* State.  phase: whether a Scene object exists; props: the bag the        *)
(* constructor was given; m_*: the members of the Scene; dirty, grad: each *)
(* shape's m_dirty and parameters_grad_enabled(); notif: what the last     *)
(* parameters_changed() call did; last: the last operation that was not a  *)
(* query; ret: the arguments and the return value of the query whose       *)
(* result the caller holds.                                                *)
(***************************************************************************)
VARIABLES phase, props, m_children, m_shapes, m_shapegroups, m_emitters,
          m_sensors, m_environment, m_integrator, m_bbox, m_emitter_pmf,
          m_shapes_grad_enabled, dirty, grad, notif, last, ret

members == << m_children, m_shapes, m_shapegroups, m_emitters, m_sensors,
              m_environment, m_integrator, m_bbox, m_emitter_pmf >>

vars == << phase, props, members, m_shapes_grad_enabled, dirty, grad, notif,
           last, ret >>

NoRet == [op |-> "none"]

NoNotif == [refreshes |-> 0, dirty_before |-> {}, dirty_at_refresh |-> {},
            env_set_scene |-> FALSE]

Init ==
    /\ phase = "unconstructed"
    /\ props = << >>
    /\ m_children = << >> /\ m_shapes = << >> /\ m_shapegroups = << >>
    /\ m_emitters = << >> /\ m_sensors = << >>
    /\ m_environment = NullPtr /\ m_integrator = NullPtr
    /\ m_bbox = EmptyBBox /\ m_emitter_pmf = 0
    /\ m_shapes_grad_enabled = FALSE
    /\ dirty = [s \in ShapeIds |-> FALSE]
    /\ grad = [s \in ShapeIds |-> FALSE]
    /\ notif = NoNotif
    /\ last = "none"
    /\ ret = NoRet

\* new Scene(props), props drawn from the catalog entries at the indices idx.
\* An exception leaves no Scene behind.
Construct(idx) ==
    /\ phase = "unconstructed"
    /\ \E S \in SUBSET idx :
         LET p  == PropsOf(S)
             sc == SceneCtor(p)
         IN  /\ props' = p
             /\ IF sc.threw
                THEN /\ phase' = "failed"
                     /\ UNCHANGED << members, m_shapes_grad_enabled >>
                ELSE /\ phase' = "constructed"
                     /\ m_children' = sc.m_children
                     /\ m_shapes' = sc.m_shapes
                     /\ m_shapegroups' = sc.m_shapegroups
                     /\ m_emitters' = sc.m_emitters
                     /\ m_sensors' = sc.m_sensors
                     /\ m_environment' = sc.m_environment
                     /\ m_integrator' = sc.m_integrator
                     /\ m_bbox' = sc.m_bbox
                     /\ m_emitter_pmf' = sc.m_emitter_pmf
                     /\ m_shapes_grad_enabled' = sc.m_shapes_grad_enabled
    /\ last' = "ctor"
    /\ UNCHANGED << dirty, grad, notif, ret >>

(***************************************************************************)
(* Scene::sample_emitter, Scene::pdf_emitter                               *)
(***************************************************************************)
\* sample_emitter(index_sample) over n emitters: << index, weight, re-used
\* sample >>.
\* sample_emitter returning the sample as it came instead of the remainder.
sample_emitter_no_reuse(n, index_sample) ==
    IF n < 2
    THEN IF n = 1 THEN << 0, Unit, index_sample >>
                  ELSE << UIntMax, 0, index_sample >>
    ELSE LET emitter_count_f     == FromUInt(n)
             index_sample_scaled == FMul(index_sample, emitter_count_f)
             index == Min(ToUInt(index_sample_scaled), (n - 1) % UIntRange)
         IN  << index, emitter_count_f, index_sample >>

\* sample_emitter with the one-emitter and no-emitter results exchanged.
sample_emitter_swapped(n, index_sample) ==
    IF n < 2
    THEN IF n = 1 THEN << UIntMax, 0, index_sample >>
                  ELSE << 0, Unit, index_sample >>
    ELSE LET emitter_count_f     == FromUInt(n)
             index_sample_scaled == FMul(index_sample, emitter_count_f)
             index == Min(ToUInt(index_sample_scaled), (n - 1) % UIntRange)
         IN  << index, emitter_count_f,
                FSub(index_sample_scaled, FromUInt(index)) >>

sample_emitter(n, index_sample) ==
    IF n < 2
    THEN IF n = 1 THEN << 0, Unit, index_sample >>
                  ELSE << UIntMax, 0, index_sample >>
    ELSE LET emitter_count_f     == FromUInt(n)
             index_sample_scaled == FMul(index_sample, emitter_count_f)
             index == Min(ToUInt(index_sample_scaled), (n - 1) % UIntRange)
         IN  << index, emitter_count_f,
                FSub(index_sample_scaled, FromUInt(index)) >>

pdf_emitter(pmf, index) == pmf

SampleEmitter ==
    /\ phase = "constructed"
    /\ ret = NoRet
    /\ \E u \in Samples :
         LET r == sample_emitter(Len(m_emitters), u)
         IN  ret' = [op |-> "sample_emitter", u |-> u, index |-> r[1],
                     weight |-> r[2], remapped |-> r[3]]
    /\ UNCHANGED << phase, props, members, m_shapes_grad_enabled, dirty, grad,
                    notif, last >>

PdfEmitter ==
    /\ phase = "constructed"
    /\ ret = NoRet
    /\ \E index \in 0..(Len(m_emitters) - 1) \cup {UIntMax} :
         ret' = [op |-> "pdf_emitter", index |-> index,
                 pdf |-> pdf_emitter(m_emitter_pmf, index)]
    /\ UNCHANGED << phase, props, members, m_shapes_grad_enabled, dirty, grad,
                    notif, last >>

\* The caller takes the result of a query; queries do not overlap.
Return ==
    /\ ret # NoRet
    /\ ret' = NoRet
    /\ UNCHANGED << phase, props, members, m_shapes_grad_enabled, dirty, grad,
                    notif, last >>

(***************************************************************************)
(* Scene::sample_emitter_ray                                               *)
(***************************************************************************)
\* The samples the ray and direction queries are tried with: the smallest
\* and the largest of [0, 1).
EdgeSamples == {0, Unit - Ulp(Unit - 1)}

\* bool vcall_inline = true; if constexpr (is_jit_array) vcall_inline =
\* jit_flag(VCallInline).
VCallInline(jit, flag) == IF jit THEN flag ELSE TRUE

\* The settings of the flag that can be told apart: it is read in a JIT
\* variant only.
JitFlags(jit) == IF jit THEN BOOLEAN ELSE {TRUE}

\* Which of the three branches runs.
Branch(emitter_count, vcall_inline) ==
    IF emitter_count > 1 \/ (emitter_count = 1 /\ ~vcall_inline) THEN "sampled"
    ELSE IF emitter_count = 1 THEN "single"
    ELSE "none"

\* The values a default-initialized EmitterPtr may hold when it is read: an
\* empty array in a JIT variant, any pointer at all in a scalar variant.
Uninitialized(jit, emitters) ==
    IF jit THEN {"empty"} ELSE {NullPtr, "garbage"} \cup Range(emitters)

\* The ray an emitter generates is named by the emitter and the first sample
\* it was given; w is the importance weight the emitter returns; uninit the
\* content of the outer, never assigned, variable `emitter`.
sample_emitter_ray(emitters, vcall_inline, sample1, w, uninit) ==
    LET branch == Branch(Len(emitters), vcall_inline)
        se     == sample_emitter(Len(emitters), sample1)
    IN  CASE branch = "sampled" ->
               [ray |-> [by |-> emitters[se[1] + 1], sample1 |-> se[3]],
                weight |-> FMul(w, se[2]),
                emitter |-> uninit]
          [] branch = "single" ->
               [ray |-> [by |-> emitters[1], sample1 |-> sample1],
                weight |-> w,
                emitter |-> uninit]
          [] OTHER ->
               [ray |-> [by |-> NullPtr, sample1 |-> 0],
                weight |-> 0,
                emitter |-> NullPtr]

LightWeights == {0, Unit}

SampleEmitterRay ==
    /\ phase = "constructed"
    /\ ret = NoRet
    /\ \E jit \in BOOLEAN, sample1 \in EdgeSamples, w \in LightWeights :
       \E flag \in JitFlags(jit) :
         \E uninit \in Uninitialized(jit, m_emitters) :
           LET r == sample_emitter_ray(m_emitters, VCallInline(jit, flag),
                                       sample1, w, uninit)
           IN  ret' = [op |-> "sample_emitter_ray",
                       vcall_inline |-> VCallInline(jit, flag),
                       sample1 |-> sample1, ray |-> r.ray, weight |-> r.weight,
                       emitter |-> r.emitter]
    /\ UNCHANGED << phase, props, members, m_shapes_grad_enabled, dirty, grad,
                    notif, last >>

(***************************************************************************)
(* Scene::sample_emitter_direction, Scene::pdf_emitter_direction           *)
(***************************************************************************)
Lanes == 1..NumLanes

\* What the emitter's sample_direction returns: the smallest positive
\* density, 1.0 or 0; a contribution of 1.0 or 0.
LightPdfs == {0, 1, Unit}

LightSpecs == {0, Unit}

\* Per lane: the first sample component, the selected emitter's answer, and
\* whether the segment to the sampled point is blocked (which only a
\* visibility test can find out).
LaneInputs(test_visibility) ==
    [u : EdgeSamples, pdf : LightPdfs, spec : LightSpecs,
     occ : IF test_visibility THEN BOOLEAN ELSE {FALSE}]

\* direction_lane with the density scaled by the selection weight.
direction_lane_weight(emitters, pmf, vcall_inline, in) ==
    LET branch == Branch(Len(emitters), vcall_inline)
        se     == sample_emitter(Len(emitters), in.u)
    IN  CASE branch = "sampled" ->
               [emitter |-> emitters[se[1] + 1], sample_x |-> se[3],
                pdf |-> FMul(in.pdf, se[2]),
                spec |-> FMul(in.spec, se[2])]
          [] branch = "single" ->
               [emitter |-> emitters[1], sample_x |-> in.u,
                pdf |-> in.pdf, spec |-> in.spec]
          [] OTHER ->
               [emitter |-> NullPtr, sample_x |-> in.u, pdf |-> 0, spec |-> 0]

\* One lane up to the visibility test: the emitter asked, the sample it was
\* given, ds.pdf and spec after the scaling.
direction_lane(emitters, pmf, vcall_inline, in) ==
    LET branch == Branch(Len(emitters), vcall_inline)
        se     == sample_emitter(Len(emitters), in.u)
    IN  CASE branch = "sampled" ->
               [emitter |-> emitters[se[1] + 1], sample_x |-> se[3],
                pdf |-> FMul(in.pdf, pdf_emitter(pmf, se[1])),
                spec |-> FMul(in.spec, se[2])]
          [] branch = "single" ->
               [emitter |-> emitters[1], sample_x |-> in.u,
                pdf |-> in.pdf, spec |-> in.spec]
          [] OTHER ->
               [emitter |-> NullPtr, sample_x |-> in.u, pdf |-> 0, spec |-> 0]

\* dr::any_or<true>(active): true in a JIT variant, any(active) otherwise.
AnyOrTrue(jit, active) == jit \/ \E l \in Lanes : active[l]

\* The visibility test of one lane and what the lane returns.  tested:
\* ray_test was called; it traces its active lanes and reports the others
\* unoccluded.  queried: ray_test traced this lane.
lane_result(lane, in, branch, tested) ==
    LET active   == branch # "none" /\ lane.pdf # 0
        queried  == tested /\ active
        occluded == queried /\ in.occ
    IN  [emitter |-> lane.emitter,
         light_pdf |-> in.pdf, light_spec |-> in.spec,
         pdf_scaled |-> lane.pdf,
         queried |-> queried, occluded |-> occluded,
         pdf |-> IF occluded THEN 0 ELSE lane.pdf,
         spec |-> IF occluded THEN 0 ELSE lane.spec]

\* The whole batch.
sample_emitter_direction(emitters, pmf, jit, flag, test_visibility, in) ==
    LET vcall_inline == VCallInline(jit, flag)
        branch == Branch(Len(emitters), vcall_inline)
        active == [l \in Lanes |->
                     branch # "none"
                       /\ direction_lane(emitters, pmf, vcall_inline, in[l]).pdf # 0]
        tested == branch # "none" /\ test_visibility /\ AnyOrTrue(jit, active)
    IN  [l \in Lanes |->
           lane_result(direction_lane(emitters, pmf, vcall_inline, in[l]),
                       in[l], branch, tested)]

SampleEmitterDirection ==
    /\ phase = "constructed"
    /\ ret = NoRet
    /\ \E jit \in BOOLEAN, test_visibility \in BOOLEAN :
       \E flag \in JitFlags(jit), in \in [Lanes -> LaneInputs(test_visibility)] :
         ret' = [op |-> "sample_emitter_direction",
                 vcall_inline |-> VCallInline(jit, flag),
                 test_visibility |-> test_visibility,
                 lanes |-> sample_emitter_direction(m_emitters, m_emitter_pmf,
                              jit, flag, test_visibility, in)]
    /\ UNCHANGED << phase, props, members, m_shapes_grad_enabled, dirty, grad,
                    notif, last >>

\* ds.emitter->pdf_direction(ref, ds, active) * m_emitter_pmf
pdf_emitter_direction(pmf, light_pdf) == FMul(light_pdf, pmf)

\* ds is a direction sample made earlier: it names one of the emitters.
PdfEmitterDirection ==
    /\ phase = "constructed"
    /\ ret = NoRet
    /\ \E e \in Range(m_emitters), p \in LightPdfs :
         ret' = [op |-> "pdf_emitter_direction", emitter |-> e,
                 light_pdf |-> p,
                 pdf |-> pdf_emitter_direction(m_emitter_pmf, p)]
    /\ UNCHANGED << phase, props, members, m_shapes_grad_enabled, dirty, grad,
                    notif, last >>

(***************************************************************************)
(* Shapes are edited in place by their owners: an edit sets the shape's    *)
(* m_dirty, and gradient tracking of its parameters is switched on or off. *)
(***************************************************************************)
SceneShapes == Range(m_shapes) \cup Range(m_shapegroups)

MarkDirty ==
    /\ phase = "constructed"
    /\ \E s \in SceneShapes : dirty' = [dirty EXCEPT ![s] = TRUE]
    /\ last' = "edit"
    /\ UNCHANGED << phase, props, members, m_shapes_grad_enabled, grad, notif,
                    ret >>

SetGradEnabled ==
    /\ phase = "constructed"
    /\ \E s \in SceneShapes, b \in BOOLEAN : grad' = [grad EXCEPT ![s] = b]
    /\ last' = "edit"
    /\ UNCHANGED << phase, props, members, m_shapes_grad_enabled, dirty, notif,
                    ret >>

(***************************************************************************)
(* Scene::parameters_changed                                               *)
(***************************************************************************)
\* DirtyScan leaving the loop at the first dirty shape.
RECURSIVE DirtyScanBreak(_, _, _, _)
DirtyScanBreak(shapes, i, accel_is_dirty, d) ==
    IF i > Len(shapes) \/ accel_is_dirty
    THEN [accel_is_dirty |-> accel_is_dirty, dirty |-> d]
    ELSE DirtyScanBreak(shapes, i + 1, accel_is_dirty \/ d[shapes[i]],
                        [d EXCEPT ![shapes[i]] = FALSE])

\* The first loop: accel_is_dirty |= s->dirty(); s->m_dirty = false.
RECURSIVE DirtyScan(_, _, _, _)
DirtyScan(shapes, i, accel_is_dirty, d) ==
    IF i > Len(shapes)
    THEN [accel_is_dirty |-> accel_is_dirty, dirty |-> d]
    ELSE DirtyScan(shapes, i + 1, accel_is_dirty \/ d[shapes[i]],
                   [d EXCEPT ![shapes[i]] = FALSE])

\* GradScan starting from the flag's previous value.
RECURSIVE GradScanSticky(_, _, _, _)
GradScanSticky(prev, shapes, i, g) ==
    IF i > Len(shapes) THEN prev
    ELSE LET enabled == prev \/ g[shapes[i]]
         IN  IF enabled THEN enabled
             ELSE GradScanSticky(enabled, shapes, i + 1, g)

\* The second loop, entered with the flag reset to false:
\* m_shapes_grad_enabled |= s->parameters_grad_enabled(), left at the first
\* true.  prev is the value the flag had before the call.
RECURSIVE GradScan(_, _, _, _)
GradScan(prev, shapes, i, g) ==
    IF i > Len(shapes) THEN FALSE
    ELSE LET enabled == FALSE \/ g[shapes[i]]
         IN  IF enabled THEN enabled
             ELSE GradScan(prev, shapes, i + 1, g)

\* notif records the call: how often the acceleration structure was
\* refreshed, the shapes of the shape list flagged dirty when the call began
\* and when the refresh was invoked, whether the environment emitter was
\* told of the scene.
ParametersChanged ==
    /\ phase = "constructed"
    /\ LET scan == DirtyScan(m_shapes, 1, FALSE, dirty)
       IN  /\ dirty' = scan.dirty
           /\ notif' =
                [refreshes |-> IF scan.accel_is_dirty THEN 1 ELSE 0,
                 dirty_before |-> {s \in Range(m_shapes) : dirty[s]},
                 dirty_at_refresh |->
                    IF scan.accel_is_dirty
                    THEN {s \in Range(m_shapes) : scan.dirty[s]} ELSE {},
                 env_set_scene |-> m_environment # NullPtr]
    /\ m_shapes_grad_enabled' = GradScan(m_shapes_grad_enabled, m_shapes, 1, grad)
    /\ last' = "notify"
    /\ UNCHANGED << phase, props, members, grad, ret >>

(***************************************************************************)
(* Specifications.  Spec: construction from bags of every kind of object.  *)
(* SpecSample: scenes of zero to six emitters and the discrete sampling    *)
(* queries.  SpecChange: scenes of shapes, edits of the shapes and          *)
(* parameter-change notifications.  SpecDirection: scenes of zero to three  *)
(* emitters and the ray and direction sampling queries.                    *)
(***************************************************************************)
ConstructRegistry == Construct(RegistryIdx)

ConstructLights == Construct(LightIdx)

Next == ConstructRegistry \/ PdfEmitter \/ Return

Spec == Init /\ [][Next]_vars

NextSample == ConstructLights \/ SampleEmitter \/ PdfEmitter \/ Return

SpecSample == Init /\ [][NextSample]_vars

ConstructShapes == Construct(ShapeIdx)

NextChange ==
    ConstructShapes \/ MarkDirty \/ SetGradEnabled \/ ParametersChanged

SpecChange == Init /\ [][NextChange]_vars

ConstructFewLights == Construct(FewLightIdx)

NextDirection ==
    \/ ConstructFewLights
    \/ SampleEmitterRay
    \/ SampleEmitterDirection
    \/ PdfEmitterDirection
    \/ Return

SpecDirection == Init /\ [][NextDirection]_vars

(***************************************************************************)
(* Properties.                                                             *)
(***************************************************************************)
ObjOf(id) == CHOOSE o \in Range(Catalog) : o.id = id

IsCatalogId(id) == \E o \in Range(Catalog) : o.id = id

\* The stand-alone emitters of a bag that are environment emitters and the
\* integrators of a bag, by position.
EnvLights(p) ==
    {i \in 1..Len(p) : p[i].kind = "emitter" /\ ~p[i].surface_flag
                       /\ p[i].is_environment}

Integrators(p) == {i \in 1..Len(p) : p[i].kind = "integrator"}

\* The environment emitters and the integrators a Scene holds.
RegisteredEnv ==
    {id \in Range(m_children) \cup {m_environment} :
        IsCatalogId(id) /\ ObjOf(id).kind = "emitter" /\ ObjOf(id).is_environment}

RegisteredIntegrators ==
    {id \in Range(m_children) : ObjOf(id).kind = "integrator"}
        \cup ({m_integrator} \ {NullPtr})

\* C1: a bag with two or more stand-alone environment emitters, or two or more
\* integrators, makes the constructor throw, and no query ever runs on that
\* scene; a constructed scene holds at most one environment emitter and at
\* most one integrator.
C1_OneEnvironmentOneIntegrator ==
    /\ (phase # "unconstructed"
          /\ (Cardinality(EnvLights(props)) >= 2
                \/ Cardinality(Integrators(props)) >= 2))
       => phase = "failed"
    /\ phase = "failed" => ret = NoRet
    /\ ret # NoRet => phase = "constructed"
    /\ phase = "constructed"
       => /\ Cardinality(RegisteredEnv) <= 1
          /\ Cardinality(RegisteredIntegrators) <= 1

C1_Witness ==
    /\ phase = "failed"
    /\ Cardinality(EnvLights(props)) >= 2
    /\ Cardinality(Integrators(props)) < 2

C1_WitnessIntegrators ==
    /\ phase = "failed"
    /\ Cardinality(Integrators(props)) >= 2
    /\ Cardinality(EnvLights(props)) < 2

\* The shapes of a bag, and those that are not instancing groups.
ShapesOf(p) == {o \in Range(p) : o.kind = "shape"}

NonInstancing(p) == {o \in ShapesOf(p) : ~o.is_shapegroup}

C2_SampleEmitterReference ==
    ret.op = "sample_emitter" =>
      LET N      == Len(m_emitters)
          scaled == FMul(ret.u, N * Unit)
      IN  /\ N = 0 => ret.index = UIntMax /\ ret.weight = 0 /\ ret.remapped = ret.u
          /\ N = 1 => ret.index = 0 /\ ret.weight = Unit /\ ret.remapped = ret.u
          /\ N >= 2 => /\ ret.index = Min(scaled \div Unit, N - 1)
                       /\ ret.weight = N * Unit
                       /\ ret.remapped = scaled - ret.index * Unit
                       /\ 0 <= ret.remapped /\ ret.remapped < Unit

C2_Witness ==
    /\ ret.op = "sample_emitter"
    /\ Len(m_emitters) = 3
    /\ ret.index = 2
    /\ ret.remapped # ret.u
    /\ ret.remapped > 0

\* C3 as stated: whatever the number N >= 0 of emitters, the index that
\* sample_emitter returns is below N.
C3_IndexBelowCount ==
    ret.op = "sample_emitter" => ret.index < Len(m_emitters)

\* C3: with N >= 1 emitters the index that sample_emitter returns is below N;
\* without emitters it is the invalid index UInt32(-1), the largest unsigned
\* value.
C3_IndexBelowCountOrInvalid ==
    ret.op = "sample_emitter" =>
      IF Len(m_emitters) >= 1
      THEN ret.index < Len(m_emitters)
      ELSE ret.index = UIntRange - 1 /\ ret.index >= Len(m_emitters)

C3_Witness ==
    /\ ret.op = "sample_emitter"
    /\ Len(m_emitters) >= 2
    /\ ret.index = Len(m_emitters) - 1
    /\ ret.u = Unit - Ulp(Unit - 1)

\* C6 as stated: a notification refreshes the acceleration structure once
\* if a shape of the shape list was dirty when it began and not at all
\* otherwise, and when it returns no shape of the scene is flagged dirty.
C6_RefreshOnceAllClean ==
    last = "notify" =>
      /\ notif.refreshes = (IF notif.dirty_before # {} THEN 1 ELSE 0)
      /\ \A s \in SceneShapes : ~dirty[s]

\* C6: a notification refreshes the acceleration structure once if a shape
\* of the shape list was dirty when it began and not at all otherwise, and
\* when it returns no shape of the shape list is flagged dirty.
C6_RefreshOnceListClean ==
    last = "notify" =>
      /\ notif.refreshes = (IF notif.dirty_before # {} THEN 1 ELSE 0)
      /\ \A s \in Range(m_shapes) : ~dirty[s]

C6_Witness ==
    /\ last = "notify"
    /\ notif.refreshes = 1
    /\ Cardinality(notif.dirty_before) >= 2

\* C7: when the refresh is invoked, exactly the shapes that were dirty when
\* the notification began are still flagged dirty.
C7_DirtyUntilRefreshed ==
    (last = "notify" /\ notif.refreshes > 0)
      => notif.dirty_at_refresh = notif.dirty_before

\* C8 as stated: after a notification the gradient flag is true exactly if a
\* shape of the scene has gradient tracking enabled.
C8_GradFlagAnyShape ==
    last = "notify" =>
      (m_shapes_grad_enabled <=> \E s \in SceneShapes : grad[s])

\* C8: after a notification the gradient flag is true exactly if a shape of
\* the shape list has gradient tracking enabled, whether or not a shape was
\* dirty and whatever the flag was before.
C8_GradFlagListShape ==
    last = "notify" =>
      (m_shapes_grad_enabled <=> \E s \in Range(m_shapes) : grad[s])

C8_Witness ==
    /\ last = "notify"
    /\ ~m_shapes_grad_enabled
    /\ notif.refreshes = 0
    /\ Len(m_shapes) >= 2

\* C4: with one or more emitters, whatever the inlining flag, the emitter
\* that sample_emitter_ray returns is the one that was selected and whose
\* sample_ray made the returned ray; only without emitters is it null, with
\* a zero ray and a zero weight.
C4_RayReturnsSelectedEmitter ==
    ret.op = "sample_emitter_ray" =>
      IF Len(m_emitters) >= 1
      THEN /\ ret.ray.by \in Range(m_emitters)
           /\ ret.emitter = ret.ray.by
      ELSE /\ ret.emitter = NullPtr
           /\ ret.ray.by = NullPtr
           /\ ret.weight = 0

\* C5: a lane whose density is 0 after the scaling by the selection
\* probability is not traced by the visibility test and returns a
\* contribution of 0, whatever contribution the emitter returned.
C5_ZeroPdfNoQueryZeroContribution ==
    ret.op = "sample_emitter_direction" =>
      \A l \in Lanes :
        ret.lanes[l].pdf_scaled = 0
          => (~ret.lanes[l].queried /\ ret.lanes[l].spec = 0)

\* C10: with one or more emitters, whatever the inlining flag, a lane of
\* sample_emitter_direction that the visibility test did not zero returns
\* the emitter's density times 1/N, as pdf_emitter_direction returns the
\* emitter's pdf_direction times 1/N, and the emitter's contribution times N.
C10_DirectionPdfConsistent ==
    LET N == Len(m_emitters)
    IN  /\ (ret.op = "sample_emitter_direction" /\ N >= 1) =>
             \A l \in Lanes :
               ~ret.lanes[l].occluded =>
                 /\ ret.lanes[l].pdf
                      = FMul(ret.lanes[l].light_pdf, FDiv(Unit, N * Unit))
                 /\ ret.lanes[l].spec = FMul(ret.lanes[l].light_spec, N * Unit)
        /\ ret.op = "pdf_emitter_direction" =>
             ret.pdf = FMul(ret.light_pdf, FDiv(Unit, N * Unit))

C10_Witness ==
    /\ ret.op = "sample_emitter_direction"
    /\ Len(m_emitters) = 3
    /\ \E l \in Lanes :
         /\ ~ret.lanes[l].occluded
         /\ ret.lanes[l].queried
         /\ ret.lanes[l].light_pdf = Unit
         /\ ret.lanes[l].pdf # 0
         /\ ret.lanes[l].pdf < ret.lanes[l].light_pdf
         /\ ret.lanes[l].spec = 3 * Unit

====
